---- MODULE Spec2Model ----
(***************************************************************************)
(* Accumulation pipeline of the path tracer: the main thread (start-up,    *)
(* key polling, update_frame_texture, glfwPollEvents with the cursor       *)
(* callback), the worker threads and invalidate_accumulation, all          *)
(* synchronised by frame_mutex.                                            *)
(*                                                                         *)
(* Radiance is abstracted to one unit per sample: a buffer element holds   *)
(* the accumulated weight in units of 1/WeightUnits, so a worker pass at   *)
(* scale s adds 256/(s*s) to a pixel and the presenter's seed stores 1.    *)
(* All the weights are powers of two far below 2^24, so the float          *)
(* arithmetic of accum_count is exact for the values reached here.         *)
(* Every operation of the code on a pixel buffer works element by element  *)
(* (accum[i] += local_accum[i], frame[i] = accum[i] / accum_count, a write *)
(* to one pixel_index), so the elements at a fixed set of positions evolve *)
(* exactly as in the full array.  A buffer is the record of its allocated  *)
(* length n and of its elements px at the tracked positions; pixel index p *)
(* of the C array is position p+1; the NULL pointer is the buffer of       *)
(* length 0.                                                               *)
(***************************************************************************)
EXTENDS Integers, Sequences, FiniteSets, TLC

\* ---------------------------------------------------------------- constants
NumThreads == 16
MaxInitScale == 16
SeedScale == 16
GenBits == 32
PresentScale == 1
NumKeys == 4
WeightUnits == 256
MAX_OBJECTS == 1024
FLT_MANT_DIG == 24
CountUnits == 64

\* ------------------------------------------------------------------- bounds
NumActive == 1
MaxTicks == 2
MaxInval == 2
MaxPasses == 2
SmallW == 16
LargeW == 17
FrameH == 16
BurstHi == 65535
BurstLo == 65535
MaxAdds == 1026
DirMax == 2
OriginMax == 3
MaxSceneLen == 2
CubeDirMax == 2
CubeW == 4
CubeH == 3
LongRunGap == 120

\* a generation is kept as two limbs <<high, low>> of GenBits / 2 bits each
Limb == 2 ^ (GenBits \div 2)
GenZero == <<0, 0>>
WorkerIds == 0 .. (NumThreads - 1)
ActiveWorkers == 0 .. (NumActive - 1)
Sizes == {<<SmallW, FrameH>>, <<LargeW, FrameH>>}
HeapGarbage == {0, 77}
\* owner of frame_mutex: a worker index, the main thread, or nobody
Main == NumThreads
Free == NumThreads + 1

VARIABLES
    pc_main, key, ticks,
    screen_w, screen_h, camera,
    frame_mutex,
    accum_generation, accum, frame, frame_w, frame_h, accum_count,
    init_scale, wpc, resize,
    local_accum_generation, local_accum, local_accum_count,
    local_frame_w, local_frame_h,
    epoch, local_epoch, local_cams, counted, expect, entry_reset,
    passes, oob_write, discarded,
    objects, num_objects, added,
    ray, hit,
    cubemap, dir, texel,
    accum_count_f

mainVars == <<pc_main, key, ticks, screen_w, screen_h, camera>>
sharedVars == <<accum_generation, accum, frame, frame_w, frame_h, accum_count>>
workerVars == <<wpc, resize, local_accum_generation, local_accum,
                local_accum_count, local_frame_w, local_frame_h>>
ghostVars == <<epoch, local_epoch, local_cams, counted, expect, entry_reset,
               passes, oob_write, discarded>>
\* the scene store, and the argument and the result of the call in progress
\* of trace_ray and of sample_cubemap
sceneVars == <<objects, num_objects, added>>
traceVars == <<ray, hit>>
cubemapVars == <<cubemap, dir, texel>>
\* accum_count as the float it is, in units of 1 / CountUnits, for the long
\* runs in which its 24-bit significand matters
longVars == <<accum_count_f>>
coreVars == <<sceneVars, traceVars, cubemapVars, longVars>>
pipelineVars == <<mainVars, frame_mutex, sharedVars, init_scale, workerVars,
                  ghostVars>>
vars == <<pipelineVars, coreVars>>

\* ------------------------------------------------------------------ helpers
Min(a, b) == IF a < b THEN a ELSE b

RECURSIVE Gcd(_, _)
Gcd(a, b) == IF b = 0 THEN a ELSE Gcd(b, a % b)

\* scale(v, 1.0f / c): the quotient v / c as a fraction in lowest terms
Quot(v, c) ==
    IF c = 0 THEN <<v, 0>>
    ELSE LET g == Gcd(v, c) IN IF g = 0 THEN <<0, 1>> ELSE <<v \div g, c \div g>>

\* the tracked positions: the corners of each frame size, the pixels around
\* the end of the first row and around the edge of the seeded tiles
TrackedSet ==
    UNION {{1, 2, SeedScale, SeedScale + 1, sz[1], sz[1] + 1,
            SeedScale * sz[1], SeedScale * sz[1] + 1,
            sz[1] * (sz[2] - 1) + 1, sz[1] * sz[2] - 1, sz[1] * sz[2]} :
               sz \in Sizes}

Tracked(n) == {p \in TrackedSet : p <= n}

\* a buffer of n elements, all of them v (malloc, memset)
Filled(n, v) == [n |-> n, px |-> [p \in Tracked(n) |-> v]]

NULL == Filled(0, 0)

RECURSIVE SumWeights(_)
SumWeights(s) == IF s = <<>> THEN 0 ELSE Head(s).wt + SumWeights(Tail(s))

\* --------------------------------------------------------------- main: start
\* min(2^i, 16): the assignment the design text gives
InitScaleMin(i) == Min(2 ^ i, MaxInitScale)

\* the limit test taken as >= instead of >
InitScale_Geq(i) == IF 2 ^ i >= MaxInitScale THEN 1 ELSE 2 ^ i

\* int init_scale = 1 << i; if (init_scale > 16) init_scale = 1;
InitScale(i) == IF 2 ^ i > MaxInitScale THEN 1 ELSE 2 ^ i

\* weight of one pass at the given scale, 1.0f / (scale * scale), in 1/256
ScaleWeight(s) == WeightUnits \div (s * s)

\* int num_objects = 0; no call of trace_ray or sample_cubemap in progress
CoreInit ==
    /\ objects = <<>> /\ num_objects = 0 /\ added = 0
    /\ ray = <<>> /\ hit = <<>>
    /\ cubemap = <<>> /\ dir = <<>> /\ texel = <<>>
    /\ accum_count_f = 0

PipelineInit ==
    /\ pc_main = "spawn" /\ key = 0 /\ ticks = 0
    /\ \E sz \in Sizes : screen_w = sz[1] /\ screen_h = sz[2]
    /\ camera = 0
    /\ frame_mutex = Free
    /\ accum_generation = GenZero /\ accum = NULL /\ frame = NULL
    /\ frame_w = 0 /\ frame_h = 0 /\ accum_count = 0
    /\ init_scale = [w \in WorkerIds |-> 0]
    /\ wpc = [w \in WorkerIds |-> "lock"]
    /\ resize = [w \in WorkerIds |-> FALSE]
    /\ local_accum_generation = [w \in WorkerIds |-> GenZero]
    /\ local_accum = [w \in WorkerIds |-> NULL]
    /\ local_accum_count = [w \in WorkerIds |-> 0]
    /\ local_frame_w = [w \in WorkerIds |-> 0]
    /\ local_frame_h = [w \in WorkerIds |-> 0]
    /\ epoch = 0
    /\ local_epoch = [w \in WorkerIds |-> 0]
    /\ local_cams = [w \in WorkerIds |-> {}]
    /\ counted = <<>>
    /\ expect = NULL
    /\ entry_reset = FALSE
    /\ passes = 0
    /\ oob_write = FALSE
    /\ discarded = [w \in WorkerIds |-> FALSE]

Init == PipelineInit /\ CoreInit

\* for (int i = 0; i < 16; i++) os_thread_create(&workers[i], init_scale, worker)
Spawn ==
    /\ UNCHANGED coreVars
    /\ pc_main = "spawn"
    /\ init_scale' = [i \in WorkerIds |-> InitScale(i)]
    /\ pc_main' = "size"
    /\ UNCHANGED <<key, ticks, screen_w, screen_h, camera, frame_mutex,
                   sharedVars, workerVars, ghostVars>>

\* ------------------------------------------------------- main: render loop
\* while (!glfwWindowShouldClose(window)) { glfwGetWindowSize(...); ...
GetWindowSize ==
    /\ UNCHANGED coreVars
    /\ pc_main = "size"
    /\ \/ /\ ticks < MaxTicks
          /\ \E sz \in Sizes : screen_w' = sz[1] /\ screen_h' = sz[2]
          /\ pc_main' = "keys" /\ key' = 0
       \/ /\ pc_main' = "done"
          /\ UNCHANGED <<screen_w, screen_h, key>>
    /\ UNCHANGED <<ticks, camera, frame_mutex, sharedVars,
                   init_scale, workerVars, ghostVars>>

\* if (glfwGetKey(window, GLFW_KEY_x) == GLFW_PRESS) { move_camera(...); ...
PollKey ==
    /\ UNCHANGED coreVars
    /\ pc_main = "keys"
    /\ IF key < NumKeys
       THEN \/ /\ epoch < MaxInval
               /\ camera' = camera + 1
               /\ pc_main' = "key_lock"
               /\ key' = key
            \/ /\ key' = key + 1
               /\ UNCHANGED <<camera, pc_main>>
       ELSE /\ pc_main' = "upd_lock"
            /\ UNCHANGED <<camera, key>>
    /\ UNCHANGED <<ticks, screen_w, screen_h, frame_mutex,
                   sharedVars, init_scale, workerVars, ghostVars>>

\* a main thread that takes the mutex without waiting for its release
MainLock_NoWait(from, to) ==
    /\ UNCHANGED coreVars
    /\ pc_main = from
    /\ frame_mutex' = Main
    /\ pc_main' = to
    /\ UNCHANGED <<key, ticks, screen_w, screen_h, camera, sharedVars,
                   init_scale, workerVars, ghostVars>>

\* os_mutex_lock(&frame_mutex) on the main thread
MainLock(from, to) ==
    /\ UNCHANGED coreVars
    /\ pc_main = from
    /\ frame_mutex = Free
    /\ frame_mutex' = Main
    /\ pc_main' = to
    /\ UNCHANGED <<key, ticks, screen_w, screen_h, camera, sharedVars,
                   init_scale, workerVars, ghostVars>>

\* g + (khi * Limb + klo) in uint32_t arithmetic
AddGeneration(g, khi, klo) ==
    LET lo == g[2] + klo
        hi == g[1] + khi + (lo \div Limb)
    IN  <<hi % Limb, lo % Limb>>

\* accum_generation++ on a uint32_t
NextGeneration(g) == AddGeneration(g, 0, 1)

\* a <= b as unsigned 32-bit numbers
GenLeq(a, b) == a[1] < b[1] \/ (a[1] = b[1] /\ a[2] <= b[2])

\* an invalidation that leaves the weight in place
InvalidatedCount_Keep(count) == count

\* accum_count = 0 in invalidate_accumulation
InvalidatedCount(count) == 0

\* invalidate_accumulation(): accum_count = 0; accum_generation++; unlock
InvalidateBody(from, to) ==
    /\ UNCHANGED coreVars
    /\ pc_main = from
    /\ frame_mutex = Main
    /\ accum_count' = InvalidatedCount(accum_count)
    /\ accum_generation' = NextGeneration(accum_generation)
    /\ frame_mutex' = Free
    /\ pc_main' = to
    /\ key' = IF from = "key_inv" THEN key + 1 ELSE key
    /\ epoch' = epoch + 1
    /\ counted' = <<>>
    /\ expect' = Filled(accum.n, 0)
    /\ UNCHANGED <<ticks, screen_w, screen_h, camera, accum, frame,
                   frame_w, frame_h, init_scale, workerVars, local_epoch,
                   local_cams, entry_reset, passes, oob_write, discarded>>

KeyLock == MainLock("key_lock", "key_inv")
KeyInvalidate == InvalidateBody("key_inv", "keys")
CursorLock == MainLock("cur_lock", "cur_inv")
CursorInvalidate == InvalidateBody("cur_inv", "rotate")

\* glfwPollEvents(): a cursor event runs cursor_pos_callback, else loop again
PollEvents ==
    /\ UNCHANGED coreVars
    /\ pc_main = "poll"
    /\ \/ /\ epoch < MaxInval
          /\ pc_main' = "cur_lock"
       \/ pc_main' = "size"
    /\ UNCHANGED <<key, ticks, screen_w, screen_h, camera,
                   frame_mutex, sharedVars, init_scale, workerVars, ghostVars>>

\* rotate_camera(x, y), after invalidate_accumulation() in the callback
RotateCamera ==
    /\ UNCHANGED coreVars
    /\ pc_main = "rotate"
    /\ camera' = camera + 1
    /\ pc_main' = "poll"
    /\ UNCHANGED <<key, ticks, screen_w, screen_h, frame_mutex,
                   sharedVars, init_scale, workerVars, ghostVars>>

\* ----------------------------------------------------- update_frame_texture
\* pixel p (1-based) lies in one of the fake_frame_w x fake_frame_h tiles
SeedCovers(p, fw, fh) ==
    LET x == (p - 1) % fw
        y == (p - 1) \div fw
    IN  /\ x < (fw \div SeedScale) * SeedScale
        /\ y < (fh \div SeedScale) * SeedScale

\* accum[pixel_index] = scale(color, scale2inv) over the seeded tiles
Seeded(a, fw, fh) ==
    [a EXCEPT !.px = [p \in Tracked(a.n) |->
        IF SeedCovers(p, fw, fh) THEN ScaleWeight(SeedScale) ELSE a.px[p]]]

\* a seeding that forgets to count its weight
SeedCount_Skip(count) == count

\* accum_count += scale2inv after the seeding
SeedCount(count) == count + ScaleWeight(SeedScale)

\* the contribution the seed adds to accum_count
SeedRecord(fw, fh) ==
    [src |-> Main, gen |-> accum_generation, ep |-> epoch,
     wt |-> ScaleWeight(SeedScale), lw |-> fw, lh |-> fh,
     cams |-> {camera}, cam |-> camera, oob |-> FALSE]

\* frame[pixel_index] = scale(accum[pixel_index], 1.0f / accum_count)
Normalized(a, c, fw, fh) ==
    [n |-> fw * fh, px |-> [p \in Tracked(fw * fh) |-> Quot(a.px[p], c)]]

\* update_frame_texture(s) from os_mutex_lock to the end of the normalisation:
\* if (frame_w != s * screen_w || ...) { resize }  if (accum_count == 0) { seed }
\* for (j) for (i) frame[pixel_index] = ...
UpdateFrame ==
    /\ UNCHANGED coreVars
    /\ pc_main = "upd_lock"
    /\ frame_mutex = Free
    /\ frame_mutex' = Main
    /\ LET sw == PresentScale * screen_w
           sh == PresentScale * screen_h
           differs == frame_w # sw \/ frame_h # sh
       IN  /\ entry_reset' = (differs \/ accum_count = 0)
           /\ frame_w' = sw
           /\ frame_h' = sh
           /\ \E g \in HeapGarbage :
                LET resized == IF differs THEN Filled(sw * sh, g) ELSE accum
                    count == IF differs THEN 0 ELSE accum_count
                IN  IF count = 0
                    THEN /\ accum' = Seeded(resized, sw, sh)
                         /\ accum_count' = SeedCount(count)
                         /\ expect' = Seeded(Filled(sw * sh, 0), sw, sh)
                         /\ counted' = <<SeedRecord(sw, sh)>>
                    ELSE /\ accum' = resized
                         /\ accum_count' = count
                         /\ UNCHANGED <<expect, counted>>
           /\ frame' = Normalized(accum', accum_count', sw, sh)
    /\ pc_main' = "upd_upload"
    /\ UNCHANGED <<key, ticks, screen_w, screen_h, camera,
                   accum_generation, init_scale, workerVars, epoch,
                   local_epoch, local_cams, passes, oob_write, discarded>>

\* glTexImage2D(..., frame); os_mutex_unlock(&frame_mutex)
UpdUpload ==
    /\ UNCHANGED coreVars
    /\ pc_main = "upd_upload"
    /\ frame_mutex = Main
    /\ frame_mutex' = Free
    /\ ticks' = ticks + 1
    /\ pc_main' = "poll"
    /\ UNCHANGED <<key, screen_w, screen_h, camera, sharedVars,
                   init_scale, workerVars, ghostVars>>

\* ------------------------------------------------------------------ worker
Running(w) == w \in ActiveWorkers /\ init_scale[w] # 0 /\ pc_main # "done"

\* a worker that enters its critical section without waiting for the mutex
WorkerLock_NoWait(w) ==
    /\ UNCHANGED coreVars
    /\ Running(w)
    /\ wpc[w] = "lock"
    /\ frame_mutex' = w
    /\ wpc' = [wpc EXCEPT ![w] = "merge"]
    /\ UNCHANGED <<mainVars, sharedVars, init_scale, resize,
                   local_accum_generation, local_accum, local_accum_count,
                   local_frame_w, local_frame_h, ghostVars>>

\* os_mutex_lock(&frame_mutex) at the top of the worker loop
WorkerLock(w) ==
    /\ UNCHANGED coreVars
    /\ Running(w)
    /\ wpc[w] = "lock"
    /\ frame_mutex = Free
    /\ frame_mutex' = w
    /\ wpc' = [wpc EXCEPT ![w] = "merge"]
    /\ UNCHANGED <<mainVars, sharedVars, init_scale, resize,
                   local_accum_generation, local_accum, local_accum_count,
                   local_frame_w, local_frame_h, ghostVars>>

\* a merge test without the generation comparison
MergeCondition_NoGeneration(w) ==
    /\ accum # NULL
    /\ local_accum[w] # NULL

\* accum != NULL && local_accum != NULL && local_accum_generation == accum_generation
MergeCondition(w) ==
    /\ accum # NULL
    /\ local_accum[w] # NULL
    /\ local_accum_generation[w] = accum_generation

\* accum_count += local_accum_count
MergedCount(count, lc) == count + lc

\* local_accum[i] for i < frame_w * frame_h; g is what lies past the buffer
LocalRead(w, p, g) ==
    IF p <= local_accum[w].n THEN local_accum[w].px[p] ELSE g

\* for (i < frame_w * frame_h) accum[i] = combine(accum[i], local_accum[i], 1, 1)
Merged(a, w, g) ==
    [n |-> frame_w * frame_h,
     px |-> [p \in Tracked(frame_w * frame_h) |-> a.px[p] + LocalRead(w, p, g)]]

\* the critical section of the worker loop, up to os_mutex_unlock
WorkerMerge(w) ==
    /\ UNCHANGED coreVars
    /\ Running(w)
    /\ wpc[w] = "merge"
    /\ frame_mutex = w
    /\ IF MergeCondition(w)
       THEN \E g \in HeapGarbage :
            /\ accum' = Merged(accum, w, g)
            /\ accum_count' = MergedCount(accum_count, local_accum_count[w])
            /\ expect' = Merged(expect, w, g)
            /\ counted' = Append(counted,
                   [src |-> w, gen |-> local_accum_generation[w],
                    ep |-> local_epoch[w], wt |-> local_accum_count[w],
                    lw |-> local_frame_w[w], lh |-> local_frame_h[w],
                    cams |-> local_cams[w], cam |-> camera,
                    oob |-> frame_w * frame_h > local_accum[w].n])
       ELSE UNCHANGED <<accum, accum_count, expect, counted>>
    /\ local_accum' = [local_accum EXCEPT
                          ![w] = Filled(local_frame_w[w] * local_frame_h[w], 0)]
    /\ resize' = [resize EXCEPT
                     ![w] = local_frame_w[w] # frame_w \/ local_frame_h[w] # frame_h]
    /\ local_accum_generation' = [local_accum_generation EXCEPT ![w] = accum_generation]
    /\ local_frame_w' = [local_frame_w EXCEPT ![w] = frame_w]
    /\ local_frame_h' = [local_frame_h EXCEPT ![w] = frame_h]
    /\ local_accum_count' = [local_accum_count EXCEPT ![w] = 0]
    /\ frame_mutex' = Free
    /\ wpc' = [wpc EXCEPT ![w] = "render"]
    /\ local_epoch' = [local_epoch EXCEPT ![w] = epoch]
    /\ local_cams' = [local_cams EXCEPT ![w] = {}]
    /\ discarded' = [discarded EXCEPT
           ![w] = @ \/ (~MergeCondition(w) /\ local_accum_count[w] > 0)]
    /\ UNCHANGED <<mainVars, accum_generation, frame, frame_w, frame_h,
                   init_scale, epoch, entry_reset, passes, oob_write>>

\* if (tile_w > local_frame_w - i * scale) tile_w = local_frame_w - i * scale
TileExtent(sc, len, i) == Min(sc, len - i * sc)

\* the real_i (or real_j) values of the coarse cells lo .. hi-1
Covered(sc, len, lo, hi) ==
    {i * sc + t : i \in lo .. (hi - 1), t \in 0 .. (sc - 1)}
        \cap UNION {{i * sc + t : t \in 0 .. (TileExtent(sc, len, i) - 1)} :
                        i \in lo .. (hi - 1)}

\* number of writes of coarse rows lo..hi-1 that land on element p (1-based)
\* when pixel_index = real_j * fw + real_i
Hits(p, cols, rows, fw, direct) ==
    IF direct
    THEN IF ((p - 1) \div fw) \in rows /\ ((p - 1) % fw) \in cols THEN 1 ELSE 0
    ELSE Cardinality({rj \in rows : ((p - 1) - rj * fw) \in cols})

\* local_accum after the coarse rows lo..hi-1 of a pass at scale sc
RenderRows(buf, sc, lw, lh, fw, lo, hi) ==
    LET cols == Covered(sc, lw, 0, lw \div sc)
        rows == Covered(sc, lh, lo, hi)
        direct == \A c \in cols : c < fw
    IN  [buf EXCEPT !.px = [p \in Tracked(buf.n) |->
            buf.px[p] + ScaleWeight(sc) * Hits(p, cols, rows, fw, direct)]]

\* some pixel_index of the coarse rows lo..hi-1 is not below lw * lh
WritesPast(sc, lw, lh, fw, lo, hi) ==
    \E rj \in Covered(sc, lh, lo, hi) :
        \E ri \in Covered(sc, lw, 0, lw \div sc) : rj * fw + ri >= lw * lh

\* if (resize) { free; malloc; memset }
Reallocated(w) ==
    IF resize[w] THEN Filled(local_frame_w[w] * local_frame_h[w], 0)
    ELSE local_accum[w]

\* the rest of the loop body after the unlock: reallocation, then
\* if (local_accum) { the tiled pass; local_accum_count += scale2inv; }
WorkerRender(w) ==
    /\ UNCHANGED coreVars
    /\ Running(w)
    /\ wpc[w] = "render"
    /\ LET buf == Reallocated(w)
           sc == init_scale[w]
           lw == local_frame_w[w]
           lh == local_frame_h[w]
       IN  IF buf = NULL
           THEN UNCHANGED <<local_accum, local_accum_count, local_cams,
                            oob_write, passes>>
           ELSE /\ passes < MaxPasses
                /\ local_accum' = [local_accum EXCEPT
                       ![w] = RenderRows(buf, sc, lw, lh, frame_w, 0, lh \div sc)]
                /\ local_accum_count' = [local_accum_count EXCEPT
                       ![w] = @ + ScaleWeight(sc)]
                /\ local_cams' = [local_cams EXCEPT ![w] =
                       IF lh \div sc > 0 /\ lw \div sc > 0 THEN @ \cup {camera} ELSE @]
                /\ oob_write' = (oob_write
                                  \/ WritesPast(sc, lw, lh, frame_w, 0, lh \div sc))
                /\ passes' = passes + 1
    /\ resize' = [resize EXCEPT ![w] = FALSE]
    /\ wpc' = [wpc EXCEPT ![w] = "lock"]
    /\ UNCHANGED <<mainVars, frame_mutex, sharedVars, init_scale,
                   local_accum_generation, local_frame_w, local_frame_h,
                   epoch, local_epoch, counted, expect, entry_reset,
                   discarded>>

\* ------------------------------------------------------------ specification
MainStep ==
    \/ Spawn \/ GetWindowSize \/ PollKey \/ KeyLock \/ KeyInvalidate
    \/ UpdateFrame \/ UpdUpload
    \/ PollEvents \/ CursorLock \/ CursorInvalidate \/ RotateCamera

WorkerStep(w) ==
    \/ WorkerLock(w) \/ WorkerMerge(w) \/ WorkerRender(w)

Next == MainStep \/ \E w \in ActiveWorkers : WorkerStep(w)

Spec == Init /\ [][Next]_vars

\* BurstHi * Limb + BurstLo consecutive runs of cursor_pos_callback inside
\* one glfwPollEvents, no other thread taking a step in between: every run
\* invalidates and then rotates the camera; the last of them is left at its
\* rotate_camera call
CursorBurst ==
    /\ UNCHANGED coreVars
    /\ pc_main = "cur_inv"
    /\ frame_mutex = Main
    /\ accum_count' = InvalidatedCount(accum_count)
    /\ accum_generation' = AddGeneration(accum_generation, BurstHi, BurstLo)
    /\ frame_mutex' = Free
    /\ pc_main' = "rotate"
    /\ camera' = camera + 1
    /\ epoch' = epoch + 1
    /\ counted' = <<>>
    /\ expect' = Filled(accum.n, 0)
    /\ UNCHANGED <<key, ticks, screen_w, screen_h, accum, frame,
                   frame_w, frame_h, init_scale, workerVars, local_epoch,
                   local_cams, entry_reset, passes, oob_write, discarded>>

NextWrap == Next \/ CursorBurst

SpecWrap == Init /\ [][NextWrap]_vars

TypeOK ==
    /\ frame_mutex \in {Free, Main} \cup ActiveWorkers
    /\ accum_generation \in (0 .. (Limb - 1)) \X (0 .. (Limb - 1))
    /\ accum_count >= 0

\* -------------------------------------------------------------- scene store
\* add_object(o): objects is the filled part objects[0 .. num_objects-1] of
\* the array; the object passed by the k-th call is named k
AddObject ==
    /\ added < MaxAdds
    /\ LET o == added + 1
       IN  IF num_objects < MAX_OBJECTS
           THEN /\ objects' = Append(objects, o)
                /\ num_objects' = num_objects + 1
           ELSE UNCHANGED <<objects, num_objects>>
    /\ added' = added + 1
    /\ UNCHANGED <<pipelineVars, traceVars, cubemapVars, longVars>>

NextScene == AddObject

\* the scene-authoring code: a sequence of add_object calls
SpecScene == Init /\ [][NextScene]_vars

\* ----------------------------------------------------------------- floats
\* A float is kept exactly, as the fraction <<n, d>> in lowest terms with
\* d > 0; <<1, 0>> is +infinity, <<-1, 0>> is -infinity and <<0, 0>> is NaN
\* (the results of x / 0.0f).  Rounding is left out: the inputs are drawn
\* from sets on which every square root taken is an integer.
Abs(x) == IF x < 0 THEN -x ELSE x

Sign(x) == IF x > 0 THEN 1 ELSE IF x < 0 THEN -1 ELSE 0

\* the float n / d of two integers
Flt(n, d) ==
    IF d = 0 THEN <<Sign(n), 0>>
    ELSE LET g == Gcd(Abs(n), Abs(d))
         IN  <<(Sign(d) * n) \div g, Abs(d) \div g>>

Zero == <<0, 1>>

IsNaN(a) == a = <<0, 0>>

\* a > b, a < b and a >= b on floats: false when an operand is NaN
Gt(a, b) ==
    /\ ~IsNaN(a) /\ ~IsNaN(b)
    /\ IF a[2] = 0 /\ b[2] = 0 THEN a[1] > b[1]
       ELSE a[1] * b[2] > b[1] * a[2]

Lt(a, b) == Gt(b, a)

Geq(a, b) == ~IsNaN(a) /\ ~IsNaN(b) /\ ~Gt(b, a)

\* FLT_MAX: every finite float of the model is below it and +infinity is
\* not, which is how +infinity compares as well
FLT_MAX == <<1, 0>>

RECURSIVE RootFrom(_, _)
RootFrom(n, r) == IF (r + 1) * (r + 1) > n THEN r ELSE RootFrom(n, r + 1)

\* sqrt(n), exact on the squares
ISqrt(n) == RootFrom(n, 0)

IsSquare(n) == n >= 0 /\ ISqrt(n) * ISqrt(n) = n

\* ---------------------------------------------------------------- vectors
\* dotv(a, b) and combine(a, b, s, t) = s*a + t*b on integer vectors
dotv(a, b) == a[1] * b[1] + a[2] * b[2] + a[3] * b[3]

combine(a, b, s, t) ==
    <<s * a[1] + t * b[1], s * a[2] + t * b[2], s * a[3] + t * b[3]>>

Axis(k, sgn) == <<IF k = 1 THEN sgn ELSE 0, IF k = 2 THEN sgn ELSE 0,
                  IF k = 3 THEN sgn ELSE 0>>

\* normalize(v) of a vector known up to a positive factor: the shortest
\* integer vector of the same direction stands for the unit vector
normalize(v) ==
    LET g == Gcd(Abs(v[1]), Gcd(Abs(v[2]), Abs(v[3])))
    IN  IF g = 0 THEN v ELSE <<v[1] \div g, v[2] \div g, v[3] \div g>>

\* ray.direction = normalize(ray.direction): the unit direction is
\* direction / len with len = sqrt(dotv(direction, direction))
Unit(r) ==
    [origin |-> r.origin, direction |-> r.direction,
     len |-> ISqrt(dotv(r.direction, r.direction))]

\* ---------------------------------------------------------- intersections
NoHit == [hit |-> FALSE, t |-> Zero, tfar |-> Zero, normal |-> <<0, 0, 0>>]

\* (a.k - r.origin.k) / r.direction.k and (b.k - r.origin.k) / r.direction.k,
\* ordered by the sign test r.direction.k >= 0
Slab(r, c, k) ==
    LET a == c.origin
        b == combine(c.origin, c.size, 1, 1)
        ta == Flt(r.len * (a[k] - r.origin[k]), r.direction[k])
        tb == Flt(r.len * (b[k] - r.origin[k]), r.direction[k])
    IN  IF r.direction[k] >= 0 THEN <<ta, tb>> ELSE <<tb, ta>>

intersect_cube(r, c) ==
    LET tx == Slab(r, c, 1)
        ty == Slab(r, c, 2)
        tz == Slab(r, c, 3)
        txmin1 == IF Gt(ty[1], tx[1]) THEN ty[1] ELSE tx[1]
        axis1 == IF Gt(ty[1], tx[1]) THEN 2 ELSE 1
        txmax1 == IF Lt(ty[2], tx[2]) THEN ty[2] ELSE tx[2]
        txmin2 == IF Gt(tz[1], txmin1) THEN tz[1] ELSE txmin1
        hit_axis == IF Gt(tz[1], txmin1) THEN 3 ELSE axis1
        txmax2 == IF Lt(tz[2], txmax1) THEN tz[2] ELSE txmax1
    IN  IF Gt(tx[1], ty[2]) \/ Gt(ty[1], tx[2]) THEN NoHit
        ELSE IF Gt(txmin1, tz[2]) \/ Gt(tz[1], txmax1) THEN NoHit
        ELSE [hit |-> TRUE, t |-> txmin2, tfar |-> txmax2,
              normal |-> IF r.direction[hit_axis] > 0
                         THEN Axis(hit_axis, -1) ELSE Axis(hit_axis, 1)]

\* With D = direction / len: a = dotv(D, D) = A / len^2, b = -2 dotv(oc, D)
\* = -2 B / len, c = C, so discr = b*b - 4*a*c = 4 (B*B - A*C) / len^2 and
\* the roots (-b +- sqrt(discr)) / (2*a) are len * (B +- sqrt(B*B - A*C)) / A.
\* The signs are those of the code, whose oc is center - origin.
SphereDiscr(r, s) ==
    LET oc == combine(s.center, r.origin, 1, -1)
    IN  dotv(oc, r.direction) * dotv(oc, r.direction)
          - dotv(r.direction, r.direction) * (dotv(oc, oc) - s.radius * s.radius)

intersect_sphere(r, s) ==
    LET oc == combine(s.center, r.origin, 1, -1)
        A == dotv(r.direction, r.direction)
        B == dotv(oc, r.direction)
        q == ISqrt(SphereDiscr(r, s))
        x0 == Flt(r.len * (B + q), A)
        x1 == Flt(r.len * (B - q), A)
        s0 == IF Gt(x0, x1) THEN x1 ELSE x0
        s1 == IF Gt(x0, x1) THEN x0 ELSE x1
    IN  IF SphereDiscr(r, s) > 0
        THEN IF Lt(s0, Zero)
             THEN IF Lt(s1, Zero) THEN NoHit
                  ELSE [NoHit EXCEPT !.hit = TRUE, !.t = s1]
             ELSE [NoHit EXCEPT !.hit = TRUE, !.t = s0]
        ELSE NoHit

\* hit_point - center, times the positive factor len * (denominator of t)
FromCenter(r, s, t) ==
    combine(combine(r.origin, s.center, 1, -1), r.direction, r.len * t[2], t[1])

intersect_object(r, o) ==
    IF o.type = "OBJECT_CUBE" THEN intersect_cube(r, o.cube)
    ELSE LET res == intersect_sphere(r, o.sphere)
         IN  IF res.hit
             THEN [res EXCEPT !.normal = normalize(FromCenter(r, o.sphere, res.t))]
             ELSE NoHit

\* the loop of trace_ray over objects[i .. num_objects-1], objects being
\* 1-based here and object indices 0-based as in the code
RECURSIVE NearestFrom(_, _, _, _)
NearestFrom(r, objs, i, best) ==
    IF i > Len(objs) THEN best
    ELSE LET res == intersect_object(r, objs[i])
         IN  IF res.hit /\ Geq(res.t, Zero) /\ Lt(res.t, best.nearest_t)
             THEN NearestFrom(r, objs, i + 1,
                      [nearest_t |-> res.t, nearest_object |-> i - 1,
                       nearest_normal |-> res.normal])
             ELSE NearestFrom(r, objs, i + 1, best)

\* combine(ray.origin, ray.direction, 1, nearest_t)
PointAt(r, t) ==
    [k \in 1 .. 3 |->
        Flt(r.origin[k] * r.len * t[2] + r.direction[k] * t[1], r.len * t[2])]

\* the HitInfo trace_ray returns once its loop has ended with near
HitInfo(r, near) ==
    IF near.nearest_object = -1
    THEN [distance |-> Flt(-1, 1), normal |-> <<0, 0, 0>>,
          point |-> [k \in 1 .. 3 |-> Zero], object |-> -1]
    ELSE [distance |-> near.nearest_t, normal |-> near.nearest_normal,
          point |-> PointAt(r, near.nearest_t),
          object |-> near.nearest_object]

\* the loop runs once, and its result near is then read field by field
trace_ray(rr, objs) ==
    LET r == Unit(rr)
        start == [nearest_t |-> FLT_MAX, nearest_object |-> -1,
                  nearest_normal |-> <<0, 0, 0>>]
    IN  CHOOSE h \in {HitInfo(r, near) :
                          near \in {NearestFrom(r, objs, 1, start)}} : TRUE

\* ------------------------------------------------------- inputs of trace_ray
\* ray origins: the grid points of the plane z = 0
Coords(m) == {<<x, y, 0>> : x \in {-m, 0, m}, y \in {-m, 0, m}}

\* directions whose length is an integer
Dirs ==
    {v \in (-DirMax .. DirMax) \X (-DirMax .. DirMax) \X (-DirMax .. DirMax) :
        v # <<0, 0, 0>> /\ IsSquare(dotv(v, v))}

Rays == [origin : Coords(OriginMax), direction : Dirs]

cube(origin, size) ==
    [type |-> "OBJECT_CUBE", cube |-> [origin |-> origin, size |-> size]]

sphere(origin, radius) ==
    [type |-> "OBJECT_SPHERE", sphere |-> [center |-> origin, radius |-> radius]]

\* a box and a sphere around the grid's centre, a box and a sphere around
\* the grid point <<OriginMax, 0, 0>>
Shapes ==
    {cube(<<-1, -1, -1>>, <<2, 2, 2>>), sphere(<<0, 0, 0>>, 2),
     cube(<<OriginMax - 1, -1, -1>>, <<2, 2, 2>>), sphere(<<OriginMax, 0, 0>>, 1)}

Scenes == UNION {[1 .. n -> Shapes] : n \in 0 .. MaxSceneLen}

\* the square root of intersect_sphere is exact for this ray and scene
ExactRoots(rr, objs) ==
    \A i \in 1 .. Len(objs) :
        objs[i].type = "OBJECT_SPHERE" =>
            \/ SphereDiscr(Unit(rr), objs[i].sphere) <= 0
            \/ IsSquare(SphereDiscr(Unit(rr), objs[i].sphere))

TraceInit ==
    /\ PipelineInit /\ screen_w = SmallW
    /\ \E objs \in Scenes, rr \in Rays :
          /\ ExactRoots(rr, objs)
          /\ objects = objs /\ num_objects = Len(objs) /\ ray = rr
    /\ added = 0 /\ hit = <<>>
    /\ cubemap = <<>> /\ dir = <<>> /\ texel = <<>>
    /\ accum_count_f = 0

\* HitInfo hit = trace_ray(ray)
TraceRay ==
    /\ hit = <<>>
    /\ hit' = trace_ray(ray, objects)
    /\ UNCHANGED <<pipelineVars, sceneVars, ray, cubemapVars, longVars>>

NextTrace == TraceRay

SpecTrace == TraceInit /\ [][NextTrace]_vars

\* ------------------------------------------------------------------ cubemap
\* clamp(x, min, max) for integers min <= max: a NaN passes both tests
clamp(x, min, max) ==
    IF Lt(x, Flt(min, 1)) THEN Flt(min, 1)
    ELSE IF Gt(x, Flt(max, 1)) THEN Flt(max, 1)
    ELSE x

\* int x = u * (n - 1) after u = 0.5f * (clamp(q, -1, 1) + 1.0f): q is
\* finite here and the product is not negative, so the conversion truncates
PixelCoord(q, n) ==
    LET u == clamp(q, -1, 1)
    IN  ((u[1] + u[2]) * (n - 1)) \div (2 * u[2])

\* the face, and u and v before the clamp
FaceOf(d) ==
    LET abs_x == Abs(d[1])
        abs_y == Abs(d[2])
        abs_z == Abs(d[3])
    IN  IF abs_x > abs_y /\ abs_x > abs_z
        THEN IF d[1] > 0
             THEN [face |-> "CF_RIGHT", u |-> Flt(-d[3], abs_x), v |-> Flt(-d[2], abs_x)]
             ELSE [face |-> "CF_LEFT", u |-> Flt(d[3], abs_x), v |-> Flt(-d[2], abs_x)]
        ELSE IF abs_y > abs_x /\ abs_y > abs_z
        THEN IF d[2] > 0
             THEN [face |-> "CF_TOP", u |-> Flt(d[1], abs_y), v |-> Flt(d[3], abs_y)]
             ELSE [face |-> "CF_BOTTOM", u |-> Flt(d[1], abs_y), v |-> Flt(-d[3], abs_y)]
        ELSE IF d[3] > 0
             THEN [face |-> "CF_FRONT", u |-> Flt(d[1], abs_z), v |-> Flt(-d[2], abs_z)]
             ELSE [face |-> "CF_BACK", u |-> Flt(-d[1], abs_z), v |-> Flt(-d[2], abs_z)]

\* the face and the pixel that sample_cubemap reads
sample_cubemap(c, d) ==
    LET f == FaceOf(d)
    IN  [face |-> f.face, x |-> PixelCoord(f.u, c.w), y |-> PixelCoord(f.v, c.h)]

\* the non-zero directions of a small grid
CubeDirs ==
    {v \in (-CubeDirMax .. CubeDirMax) \X (-CubeDirMax .. CubeDirMax)
             \X (-CubeDirMax .. CubeDirMax) : v # <<0, 0, 0>>}

Cubemaps == {[w |-> CubeW, h |-> CubeH], [w |-> CubeH, h |-> CubeW]}

CubemapInit ==
    /\ PipelineInit /\ screen_w = SmallW
    /\ objects = <<>> /\ num_objects = 0 /\ added = 0
    /\ ray = <<>> /\ hit = <<>>
    /\ cubemap \in Cubemaps /\ dir \in CubeDirs /\ texel = <<>>
    /\ accum_count_f = 0

\* sample_cubemap(&cubemap, dir)
SampleCubemap ==
    /\ texel = <<>>
    /\ texel' = sample_cubemap(cubemap, dir)
    /\ UNCHANGED <<pipelineVars, sceneVars, traceVars, cubemap, dir, longVars>>

NextCubemap == SampleCubemap

SpecCubemap == CubemapInit /\ [][NextCubemap]_vars

\* ------------------------------------------------- accum_count in a long run
RECURSIVE BitLength(_)
BitLength(n) == IF n = 0 THEN 0 ELSE 1 + BitLength(n \div 2)

\* the float nearest to n (round to nearest, ties to even): n keeps its
\* FLT_MANT_DIG leading bits
RoundFloat(n) ==
    IF BitLength(n) <= FLT_MANT_DIG THEN n
    ELSE LET ulp == 2 ^ (BitLength(n) - FLT_MANT_DIG)
             q == n \div ulp
             rest == n % ulp
         IN  IF 2 * rest > ulp \/ (2 * rest = ulp /\ q % 2 = 1)
             THEN (q + 1) * ulp
             ELSE q * ulp

\* accum_count += local_accum_count for one pass at scale sc, the count c
\* being in units of 1 / CountUnits and at least 2^(FLT_MANT_DIG - 1) units:
\* a weight below one unit is below half an ulp of c and is absorbed
FloatAddWeight(c, sc) ==
    IF sc * sc > CountUnits THEN c
    ELSE RoundFloat(c + CountUnits \div (sc * sc))

\* 2^24, the first float whose successor is 2 away
Saturation == (2 ^ FLT_MANT_DIG) * CountUnits

\* accum_count after a long run of scale-1 passes without invalidation
LongRunInit ==
    /\ PipelineInit /\ screen_w = SmallW
    /\ objects = <<>> /\ num_objects = 0 /\ added = 0
    /\ ray = <<>> /\ hit = <<>>
    /\ cubemap = <<>> /\ dir = <<>> /\ texel = <<>>
    /\ accum_count_f = Saturation - LongRunGap * CountUnits

\* worker w merges one more pass: accum_count += local_accum_count
LongRunMerge(w) ==
    /\ accum_count_f' = FloatAddWeight(accum_count_f, InitScale(w))
    /\ UNCHANGED <<pipelineVars, sceneVars, traceVars, cubemapVars>>

NextLongRun == \E w \in WorkerIds : LongRunMerge(w)

SpecLongRun == LongRunInit /\ [][NextLongRun]_vars

\* ------------------------------------------------------------------- claims
\* the contributions of worker passes among those counted in accum_count
WorkerRecords ==
    {counted[k] : k \in {j \in 1 .. Len(counted) : counted[j].src # Main}}

C2_AccumMatchesCount ==
    accum_count > 0 => accum = expect

\* C3: every worker pass merged into the accumulator has read only the
\* camera state that is current at the merge.
C3_NoStaleRadiance ==
    \A c \in WorkerRecords : c.cams \subseteq {c.cam}

C5_MergeSameDimensions ==
    \A c \in WorkerRecords : c.lw = frame_w /\ c.lh = frame_h /\ ~c.oob

\* C6: when update_frame_texture(s) is about to release the mutex,
\* frame_w = s*screen_w, frame_h = s*screen_h and accum_count > 0, and the
\* count is the seed value 1/256 if on entry the size differed or the count
\* was 0.
C6_ResizeSeedPostcondition ==
    pc_main = "upd_upload" =>
        /\ frame_w = PresentScale * screen_w
        /\ frame_h = PresentScale * screen_h
        /\ accum_count > 0
        /\ entry_reset => accum_count * SeedScale * SeedScale = WeightUnits

\* C6 witness: a tick that found the accumulator emptied by an invalidation.
C6_Witness ==
    pc_main = "upd_upload" /\ entry_reset /\ epoch > 0 /\ ticks > 0

\* C7: in the frame about to be handed to the display every pixel is
\* accum[i]/accum_count for the accum and accum_count of that moment, and
\* accum_count is not zero.
C7_FrameIsNormalizedAccum ==
    pc_main = "upd_upload" =>
        /\ accum_count # 0
        /\ frame.n = frame_w * frame_h
        /\ accum.n = frame_w * frame_h
        /\ \A p \in Tracked(frame_w * frame_h) :
              frame.px[p] = Quot(accum.px[p], accum_count)

\* C7 witness: a frame holding a merged pass is presented while a worker
\* waits at the mutex with a finished pass.
C7_Witness ==
    /\ pc_main = "upd_upload"
    /\ WorkerRecords # {}
    /\ \E w \in ActiveWorkers : wpc[w] = "lock" /\ local_accum_count[w] > 0

\* the variables protected by frame_mutex that the next step of worker w
\* reads or writes
WorkerAccess(w) ==
    IF wpc[w] = "merge"
    THEN {"accum", "frame_w", "frame_h", "accum_count", "accum_generation"}
    ELSE IF /\ wpc[w] = "render"
            /\ Reallocated(w) # NULL
            /\ local_frame_w[w] \div init_scale[w] > 0
            /\ local_frame_h[w] \div init_scale[w] > 0
         THEN {"frame_w"}
         ELSE {}

\* the variables protected by frame_mutex that the main thread's next step
\* reads or writes before it has itself taken the mutex
MainAccess ==
    IF pc_main \in {"key_inv", "cur_inv"} THEN {"accum_count", "accum_generation"}
    ELSE IF pc_main = "upd_upload" THEN {"frame", "frame_w", "frame_h"}
    ELSE {}

\* C8: a thread about to read or write frame, accum, frame_w, frame_h,
\* accum_count or accum_generation holds frame_mutex.
C8_MutexCoverage ==
    /\ MainAccess # {} => frame_mutex = Main
    /\ \A w \in ActiveWorkers :
          Running(w) /\ WorkerAccess(w) # {} => frame_mutex = w

\* C9 as stated: worker i is started with scale min(2^i, 16).
C9_ScaleIsMin ==
    \A i \in WorkerIds : init_scale[i] # 0 => init_scale[i] = InitScaleMin(i)

\* C9 amended: workers 0..4 are started with scales 1, 2, 4, 8, 16 and
\* every worker i >= 5 with scale 1.
C9_ScaleAssignment ==
    \A i \in WorkerIds : init_scale[i] # 0 =>
        init_scale[i] = (IF i <= 4 THEN 2 ^ i ELSE 1)

\* C9 witness: all sixteen workers have been started.
C9_Witness ==
    pc_main # "spawn" /\ \A i \in WorkerIds : init_scale[i] # 0

\* C10: accum_generation never decreases, and a worker whose cached
\* generation equals the shared one has seen no invalidation since it
\* cached it.
C10_GenerationMonotone ==
    /\ [][GenLeq(accum_generation, accum_generation')]_vars
    /\ [](\A w \in ActiveWorkers :
            local_accum_generation[w] = accum_generation => local_epoch[w] = epoch)

\* C11: an append to a scene store that already holds MAX_OBJECTS objects
\* does not return normally; every call of add_object that has returned has
\* stored its object at index num_objects and counted it, and num_objects
\* stays within MAX_OBJECTS.
C11_OverflowIsFatal ==
    /\ num_objects <= MAX_OBJECTS
    /\ num_objects = added
    /\ \A k \in 1 .. num_objects : objects[k] = k

\* C12: after trace_ray, for every object of the scene that
\* intersect_object reports as hit at a t >= 0 (a hit trace_ray accepts),
\* the normal returned has dot(normal, ray.direction) <= 0.
C12_NormalFacesRay ==
    hit # <<>> =>
        \A i \in 1 .. Len(objects) :
            LET res == intersect_object(Unit(ray), objects[i])
            IN  res.hit /\ Geq(res.t, Zero) =>
                    dotv(res.normal, ray.direction) <= 0

\* the axis (1 = x, 2 = y, 3 = z) and the sign a cube face stands for
FaceAxis(f) ==
    CASE f = "CF_RIGHT" -> <<1, 1>> [] f = "CF_LEFT" -> <<1, -1>>
      [] f = "CF_TOP" -> <<2, 1>> [] f = "CF_BOTTOM" -> <<2, -1>>
      [] f = "CF_FRONT" -> <<3, 1>> [] f = "CF_BACK" -> <<3, -1>>

\* C13: for a non-zero direction the face sample_cubemap picks belongs to
\* an axis whose component has the largest absolute value (ties included)
\* and to the sign of that component, and the pixel read has
\* 0 <= x <= w-1 and 0 <= y <= h-1.
C13_FaceOfLargestComponent ==
    texel # <<>> =>
        LET a == FaceAxis(texel.face)
        IN  /\ \A k \in 1 .. 3 : Abs(dir[a[1]]) >= Abs(dir[k])
            /\ Sign(dir[a[1]]) = a[2]
            /\ texel.x \in 0 .. (cubemap.w - 1)
            /\ texel.y \in 0 .. (cubemap.h - 1)

\* C14: no worker pass has written local_accum at a pixel_index outside
\* 0 .. local_frame_w * local_frame_h - 1, the range the buffer was
\* allocated with, whatever the presenter's resizes in between.
C14_TileWritesInBounds ==
    ~oob_write

\* C15: a finished worker pass has added its weight 1/scale^2, the weight
\* it adds to local_accum_count, to every pixel of its local accumulator,
\* and a presenter seed leaves every pixel of accum at the seed weight
\* 1/256 that it adds to accum_count, whatever the frame size.
C15_FullCoverage ==
    /\ \A w \in ActiveWorkers :
          local_accum_count[w] > 0 =>
              local_accum[w] = Filled(local_frame_w[w] * local_frame_h[w],
                                      local_accum_count[w])
    /\ pc_main = "upd_upload" /\ entry_reset =>
          /\ accum_count = ScaleWeight(SeedScale)
          /\ accum = Filled(frame_w * frame_h, accum_count)

\* the point origin + t * direction / len lies on the surface of box c:
\* inside the closed box, and on one of its six face planes
OnBox(r, c, t) ==
    LET a == c.origin
        b == combine(c.origin, c.size, 1, 1)
        m == r.len * t[2]
        P(k) == r.origin[k] * m + r.direction[k] * t[1]
    IN  /\ \A k \in 1 .. 3 : a[k] * m <= P(k) /\ P(k) <= b[k] * m
        /\ \E k \in 1 .. 3 : P(k) = a[k] * m \/ P(k) = b[k] * m

\* the parameters t >= 0 at which the ray meets the surface of object o:
\* for a box the crossings of its face planes (and t = 0) that lie on the
\* box, for a sphere the real roots of |O + t D - C|^2 = R^2
SurfaceTimes(r, o) ==
    IF o.type = "OBJECT_CUBE"
    THEN LET a == o.cube.origin
             b == combine(o.cube.origin, o.cube.size, 1, 1)
             crossings ==
                 {Flt(r.len * (a[k] - r.origin[k]), r.direction[k]) : k \in 1 .. 3}
                   \cup {Flt(r.len * (b[k] - r.origin[k]), r.direction[k]) : k \in 1 .. 3}
                   \cup {Zero}
         IN  {t \in crossings : t[2] > 0 /\ t[1] >= 0 /\ OnBox(r, o.cube, t)}
    ELSE LET oc == combine(o.sphere.center, r.origin, 1, -1)
             A == dotv(r.direction, r.direction)
             B == dotv(oc, r.direction)
             Q == SphereDiscr(r, o.sphere)
             roots == IF Q < 0 THEN {}
                      ELSE {Flt(r.len * (B + ISqrt(Q)), A),
                            Flt(r.len * (B - ISqrt(Q)), A)}
         IN  {t \in roots : t[1] >= 0}

\* C16: trace_ray returns object = -1 only if the ray meets no surface of
\* the scene at a t >= 0; otherwise it returns an object whose surface the
\* ray meets at the smallest such t over all the objects, and that t as the
\* distance (origins inside a box or a sphere included).
C16_NearestHit ==
    hit # <<>> =>
        LET r == Unit(ray)
            all == UNION {SurfaceTimes(r, objects[i]) : i \in 1 .. Len(objects)}
        IN  IF all = {} THEN hit.object = -1
            ELSE /\ hit.object \in 0 .. (Len(objects) - 1)
                 /\ hit.distance \in SurfaceTimes(r, objects[hit.object + 1])
                 /\ \A t \in all : ~Gt(hit.distance, t)

\* the places of the main thread between a lock and its unlock
MainCritical == {"key_inv", "cur_inv", "upd_upload"}

\* C18: frame_mutex is held by a worker exactly during its merge step (never
\* while it renders) and by the main thread exactly inside
\* invalidate_accumulation and update_frame_texture, so no thread locks it
\* twice; the next step of the holder is enabled and releases the mutex; and
\* while the main loop runs no state is a deadlock.
C18_MutexDiscipline ==
    /\ \A w \in ActiveWorkers : frame_mutex = w <=> wpc[w] = "merge"
    /\ frame_mutex = Main <=> pc_main \in MainCritical
    /\ pc_main # "done" =>
          /\ frame_mutex = Main => ENABLED (MainStep /\ frame_mutex' = Free)
          /\ \A w \in ActiveWorkers :
                frame_mutex = w => ENABLED (WorkerStep(w) /\ frame_mutex' = Free)
          /\ ENABLED Next

\* C18 witness: a worker is merging a finished pass inside its critical
\* section while the main thread waits at the lock of update_frame_texture.
C18_Witness ==
    \E w \in ActiveWorkers :
        /\ frame_mutex = w /\ local_accum_count[w] > 0
        /\ pc_main = "upd_lock" /\ accum_count > 0

\* C17 (growth without bound): whatever accum_count has grown to, the merge
\* of a finished pass of some worker makes it larger.
C17_CountKeepsGrowing ==
    accum_count_f > 0 =>
        \E w \in WorkerIds :
            FloatAddWeight(accum_count_f, InitScale(w)) > accum_count_f

====
